---- MODULE Spec2Model ----
(***************************************************************************)
(* Model of src/srcclr.ts: extractScanUrl (the report-URL extractor) and   *)
(* runAction (the scanner invoker).                                        *)
(*                                                                         *)
(* A JavaScript string is a sequence of one-character strings, so that the *)
(* regular expressions, trim() and startsWith() are computed on characters.*)
(* A JavaScript value is a record with a field kind ("undefined", "null",  *)
(* "number", "string", "array", "object") and the payload of that kind.    *)
(***************************************************************************)
EXTENDS Integers, Sequences, FiniteSets, TLC

\* ------------------------------------------------------------ characters

\* The white space of the model: a subset of what \s and trim() take as
\* white space in JavaScript (space, tab, line feed, carriage return).
WhiteSpace == {" ", "\t", "\n", "\r"}

\* The line terminators excluded by [^\r\n].
LineBreaks == {"\n", "\r"}

IsSpace(c) == c \in WhiteSpace

\* The character classes of the patterns, by name:
\*   "space" is \s, "notSpace" is \S and [^\s\r\n],
\*   "colonOrSpace" is [:\s], "notLineBreak" is [^\r\n].
InClass(cls, c) ==
  CASE cls = "space" -> c \in WhiteSpace
    [] cls = "notSpace" -> c \notin WhiteSpace
    [] cls = "colonOrSpace" -> c = ":" \/ c \in WhiteSpace
    [] cls = "notLineBreak" -> c \notin LineBreaks

\* Case folding of the /i flag, on the letters the model's texts use.
UpperToLower ==
  [F |-> "f", U |-> "u", L |-> "l", R |-> "r", E |-> "e", P |-> "p",
   O |-> "o", T |-> "t", D |-> "d", A |-> "a", I |-> "i", S |-> "s",
   H |-> "h"]

UpperLetters == DOMAIN UpperToLower

Lower(c) == IF c \in UpperLetters THEN UpperToLower[c] ELSE c

\* ------------------------------------------------------------ strings

\* The literals of the patterns, folded to lower case as /i compares them.
wFull == <<"f", "u", "l", "l">>
wReport == <<"r", "e", "p", "o", "r", "t">>
wDetails == <<"d", "e", "t", "a", "i", "l", "s">>
wHttp == <<"h", "t", "t", "p">>
wColonSlashSlash == <<":", "/", "/">>
sHttpPrefix == <<"h", "t", "t", "p", ":", "/", "/">>
sHttpsPrefix == <<"h", "t", "t", "p", "s", ":", "/", "/">>

\* String.prototype.startsWith (case-sensitive).
StartsWith(s, prefix) ==
  /\ Len(s) >= Len(prefix)
  /\ \A k \in 1..Len(prefix) : s[k] = prefix[k]

\* String.prototype.trim: strips white space at both ends.
Trim(s) ==
  LET keep == {k \in 1..Len(s) : ~IsSpace(s[k])}
  IN IF keep = {} THEN <<>>
     ELSE LET lo == CHOOSE k \in keep : \A j \in keep : k <= j
              hi == CHOOSE k \in keep : \A j \in keep : k >= j
          IN SubSeq(s, lo, hi)

\* A validation that folds the case before it compares the prefix.
IsHttpUrlAnyCase(s) ==
  LET folded == [k \in 1..Len(s) |-> Lower(s[k])]
  IN StartsWith(folded, sHttpPrefix) \/ StartsWith(folded, sHttpsPrefix)

\* url.startsWith('http://') || url.startsWith('https://')
IsHttpUrl(s) == StartsWith(s, sHttpPrefix) \/ StartsWith(s, sHttpsPrefix)

\* ------------------------------------------------------------ regex pieces
\* A position is an index into the text; a matcher returns the position
\* after what it consumed, or 0 when it fails.

\* A literal under /i, at position p.
Literal(t, p, w) ==
  IF /\ p >= 1
     /\ p + Len(w) - 1 <= Len(t)
     /\ \A k \in 1..Len(w) : Lower(t[p + k - 1]) = w[k]
  THEN p + Len(w)
  ELSE 0

\* The end of the longest run of characters of a class that starts at p.
RunEnd(t, p, cls) ==
  CHOOSE q \in p..(Len(t) + 1) :
    /\ q = Len(t) + 1 \/ ~InClass(cls, t[q])
    /\ \A k \in p..(q - 1) : InClass(cls, t[k])

\* A greedy class+ at position p. In every pattern of extractScanUrl the
\* character that must follow the run is outside the class, so the longest
\* run is the only one that lets the rest of the pattern match.
OneOrMore(t, p, cls) ==
  IF p < 1 \/ p > Len(t) THEN 0
  ELSE LET q == RunEnd(t, p, cls) IN IF q > p THEN q ELSE 0

\* Full\s+Report
PhraseWithoutDetails(t, p) ==
  Literal(t, OneOrMore(t, Literal(t, p, wFull), "space"), wReport)

\* Full\s+Report\s+Details
Phrase(t, p) ==
  Literal(t,
          OneOrMore(t,
                    Literal(t, OneOrMore(t, Literal(t, p, wFull), "space"),
                            wReport),
                    "space"),
          wDetails)

\* The first alternative that matched: a, else b.
FirstOf(a, b) == IF a # 0 THEN a ELSE b

\* s?:\/\/ at position p: with the s when that lets :\/\/ match, else without.
OptionalS(t, p) ==
  FirstOf(Literal(t, Literal(t, p, <<"s">>), wColonSlashSlash),
          Literal(t, p, wColonSlashSlash))

\* https?:\/\/
Scheme(t, p) == OptionalS(t, Literal(t, p, wHttp))

NoMatch == [ok |-> FALSE, from |-> 0, to |-> 0]

\* A match whose group 1 is t[from .. to-1]; to = 0 means the pattern failed.
Group(from, to) ==
  IF from >= 1 /\ to > from THEN [ok |-> TRUE, from |-> from, to |-> to]
  ELSE NoMatch

\* The group (https?:\/\/class+) at position g.
UrlGroup(t, g, cls) == Group(g, OneOrMore(t, Scheme(t, g), cls))

\* The group (\S+) at position g.
TokenGroup(t, g) == Group(g, OneOrMore(t, g, "notSpace"))

\* /Full\s+Report\s+Details\s+(https?:\/\/[^\s\r\n]+)/i at position p
Pattern1At(t, p) ==
  UrlGroup(t, OneOrMore(t, Phrase(t, p), "space"), "notSpace")

\* /Full\s+Report\s+Details[:\s]+(https?:\/\/[^\s\r\n]+)/i at position p
Pattern2At(t, p) ==
  UrlGroup(t, OneOrMore(t, Phrase(t, p), "colonOrSpace"), "notSpace")

\* /Full\s+Report\s+Details\s+(\S+)/i at position p
Pattern3At(t, p) == TokenGroup(t, OneOrMore(t, Phrase(t, p), "space"))

\* /Full\s+Report\s+Details[:\s]+(https?:\/\/[^\r\n]+)/i at position p
Pattern4At(t, p) ==
  UrlGroup(t, OneOrMore(t, Phrase(t, p), "colonOrSpace"), "notLineBreak")

\* The number of patterns in the list.
NumPatterns == 4

\* patterns[i - 1] tried at position p.
PatternAt(i, t, p) ==
  CASE i = 1 -> Pattern1At(t, p)
    [] i = 2 -> Pattern2At(t, p)
    [] i = 3 -> Pattern3At(t, p)
    [] OTHER -> Pattern4At(t, p)

\* output.match(patterns[i - 1]): the match at the leftmost position. Every
\* pattern starts with the letter F under /i, so only those positions are tried.
MatchAmong(i, t, starts) ==
  IF starts = {} THEN NoMatch
  ELSE PatternAt(i, t, CHOOSE p \in starts : \A q \in starts : p <= q)

Match(i, t) ==
  MatchAmong(i, t,
             {p \in 1..Len(t) : t[p] \in {"F", "f"} /\ PatternAt(i, t, p).ok})

\* match[1]
Captured(t, m) == SubSeq(t, m.from, m.to - 1)

\* ------------------------------------------------------------ JavaScript values

Undefined == [kind |-> "undefined"]
JNull == [kind |-> "null"]
Num(n) == [kind |-> "number", num |-> n]
Str(s) == [kind |-> "string", str |-> s]
Arr(items) == [kind |-> "array", items |-> items]
Obj(fields) == [kind |-> "object", fields |-> fields]

\* ToBoolean, as applied by `!output` and by the operands of &&.
Truthy(v) ==
  CASE v.kind \in {"undefined", "null"} -> FALSE
    [] v.kind = "number" -> v.num # 0
    [] v.kind = "string" -> Len(v.str) > 0
    [] OTHER -> TRUE

\* Reading a property of undefined or null throws a TypeError.
ReadThrows(v) == v.kind \in {"undefined", "null"}

\* v.key for a value that is neither undefined nor null.
Member(v, key) ==
  IF v.kind = "object" /\ key \in DOMAIN v.fields THEN v.fields[key]
  ELSE Undefined

\* v[1] for a value that is neither undefined nor null.
Index1(v) ==
  CASE v.kind = "array" -> IF Len(v.items) >= 2 THEN v.items[2] ELSE Undefined
    [] v.kind = "string" -> IF Len(v.str) >= 2 THEN Str(<<v.str[2]>>) ELSE Undefined
    [] OTHER -> Member(v, "1")

\* v[0] for a value that is neither undefined nor null.
Index0(v) ==
  CASE v.kind = "array" -> IF Len(v.items) >= 1 THEN v.items[1] ELSE Undefined
    [] v.kind = "string" -> IF Len(v.str) >= 1 THEN Str(<<v.str[1]>>) ELSE Undefined
    [] OTHER -> Member(v, "0")

\* ------------------------------------------------------------ sidecar file
\* The file at SCA_OUTPUT_FILE: whether existsSync finds it, whether
\* readFileSync can read it, whether JSON.parse accepts its content, and the
\* value JSON.parse returns.

SidecarFile(exists, readable, valid, json) ==
  [exists |-> exists, readable |-> readable, valid |-> valid, json |-> json]

NoSidecar == SidecarFile(FALSE, FALSE, FALSE, Undefined)

\* ------------------------------------------------------------ extractScanUrl
\* What one call did: the value returned (found = FALSE is null), whether an
\* exception left the function, the patterns whose match was attempted, the
\* patterns that matched but failed the validation, the pattern that gave the
\* result (0: none), and the file system calls made.

Outcome(found, url, threw, tried, rejected, used, existsCalls, readCalls) ==
  [found |-> found, url |-> url, threw |-> threw, tried |-> tried,
   rejected |-> rejected, used |-> used,
   existsCalls |-> existsCalls, readCalls |-> readCalls]

NotFound(tried, rejected, existsCalls, readCalls) ==
  Outcome(FALSE, <<>>, FALSE, tried, rejected, 0, existsCalls, readCalls)

\* for (let i = 0; i < patterns.length; i++) { ... }, from the pattern numbered i
RECURSIVE PatternLoop(_, _, _, _)

\* if (url.startsWith(...)) { return url } else { core.info(...) }, for the
\* pattern numbered i, and the rest of the loop
Validate(t, i, tried, rejected, url) ==
  IF IsHttpUrl(url)
  THEN Outcome(TRUE, url, FALSE, Append(tried, i), rejected, i, 0, 0)
  ELSE PatternLoop(t, i + 1, Append(tried, i), Append(rejected, i))

\* if (match && match[1]) { const url = match[1].trim(); ... }, for the
\* pattern numbered i, and the rest of the loop
OnMatch(t, i, tried, rejected, m) ==
  IF m.ok THEN Validate(t, i, tried, rejected, Trim(Captured(t, m)))
  ELSE PatternLoop(t, i + 1, Append(tried, i), rejected)

PatternLoop(t, i, tried, rejected) ==
  IF i > NumPatterns THEN NotFound(tried, rejected, 0, 0)
  ELSE OnMatch(t, i, tried, rejected, Match(i, t))

\* The loop started at the second pattern.
TextSearchFromSecond(t) == PatternLoop(t, 2, <<>>, <<>>)

\* The loop over the patterns, from the first one.
TextSearch(t) == PatternLoop(t, 1, <<>>, <<>>)

\* The body of the try block: [threw, found, url, readCalls].
Fallback(file) ==
  IF ~file.exists THEN [threw |-> FALSE, found |-> FALSE, url |-> <<>>, readCalls |-> 0]
  ELSE IF ~file.readable \/ ~file.valid \/ ReadThrows(file.json)
  THEN [threw |-> TRUE, found |-> FALSE, url |-> <<>>, readCalls |-> 1]
  ELSE LET records == Member(file.json, "records")
           first == IF Truthy(records) THEN Index0(records) ELSE Undefined
           metadata == IF Truthy(first) THEN Member(first, "metadata") ELSE Undefined
           report == IF Truthy(metadata) THEN Member(metadata, "report") ELSE Undefined
       IN IF ~Truthy(report)
          THEN [threw |-> FALSE, found |-> FALSE, url |-> <<>>, readCalls |-> 1]
          ELSE IF report.kind # "string"
          THEN [threw |-> TRUE, found |-> FALSE, url |-> <<>>, readCalls |-> 1]
          ELSE IF IsHttpUrl(report.str)
          THEN [threw |-> FALSE, found |-> TRUE, url |-> report.str, readCalls |-> 1]
          ELSE [threw |-> FALSE, found |-> FALSE, url |-> <<>>, readCalls |-> 1]

\* The fallback without the try/catch around it.
FallbackUncaught(file) == Fallback(file)

\* catch (error) { core.info(...) }: the exception is swallowed.
Caught(r) ==
  IF r.threw THEN [r EXCEPT !.threw = FALSE, !.found = FALSE, !.url = <<>>]
  ELSE r

\* try { ... } catch (error) { ... }
TryFallback(file) == Caught(Fallback(file))

\* The result of the fallback f after the text search s found nothing.
AfterSearch(s, f) ==
  Outcome(f.found, f.url, f.threw, s.tried, s.rejected, 0, 1, f.readCalls)

\* The text search s, and the JSON fallback when it found nothing.
SearchThenFallback(s, file) ==
  IF s.found THEN s ELSE AfterSearch(s, TryFallback(file))

\* extractScanUrl without the test of an empty output.
extractScanUrlUnguarded(output, file) ==
  SearchThenFallback(
    TextSearch(IF output.kind = "string" THEN output.str ELSE <<>>), file)

\* if (!output) return null; the loop over the patterns; the JSON fallback.
extractScanUrl(output, file) ==
  IF ~Truthy(output) THEN NotFound(<<>>, <<>>, 0, 0)
  ELSE SearchThenFallback(TextSearch(output.str), file)

\* ------------------------------------------------------------ inputs
\* The texts and sidecar files the extractor is run on.

\* "Full Report Details"
sPhrase == <<"F", "u", "l", "l", " ", "R", "e", "p", "o", "r", "t", " ", "D", "e", "t", "a", "i", "l", "s">>

\* "FULL  report\nDETAILS": other letter case, longer white space runs
sPhraseVariant == <<"F", "U", "L", "L", " ", " ", "r", "e", "p", "o", "r", "t", "\n", "D", "E", "T", "A", "I", "L", "S">>

\* "http://x.test/y"
sSidecarUrl == <<"h", "t", "t", "p", ":", "/", "/", "x", ".", "t", "e", "s", "t", "/", "y">>

PhraseForms == {sPhrase, sPhraseVariant}

\* What separates the phrase from the token: " ", ":", "\n "
Separators == {<<" ">>, <<":">>, <<"\n", " ">>}

\* The token after the separator: "a", "http://", "http://a", "HTTPS://a",
\* "https://b"
Tokens ==
  {<<"a">>, sHttpPrefix, sHttpPrefix \o <<"a">>,
   <<"H", "T", "T", "P", "S", ":", "/", "/", "a">>, sHttpsPrefix \o <<"b">>}

\* Text without the phrase: " a ", "\n", "a"
\* "Full Report http://a": the phrase without its last word, before a URL.
sNearMiss == <<"F", "u", "l", "l", " ", "R", "e", "p", "o", "r", "t", " ", "h", "t", "t", "p", ":", "/", "/", "a">>

Fillers == {<<" ", "a", " ">>, <<"\n">>, <<"a">>, sNearMiss}

Segments ==
  {h \o sep \o tok : h \in PhraseForms, sep \in Separators, tok \in Tokens}
    \cup Fillers

\* The largest number of segments in a text.
MaxSegments == 2

RECURSIVE Concats(_)
Concats(n) ==
  IF n = 0 THEN {<<>>}
  ELSE LET shorter == Concats(n - 1)
       IN shorter \cup {s \o g : s \in shorter, g \in Segments}

Texts == Concats(MaxSegments)

\* { "records": [ { "metadata": { "report": report } } ] }
ReportDoc(report) ==
  Obj([records |-> Arr(<<Obj([metadata |-> Obj([report |-> report])])>>)])

EmptyObj == Obj([none |-> Undefined])

Sidecars ==
  << NoSidecar,
     SidecarFile(TRUE, FALSE, FALSE, Undefined),
     SidecarFile(TRUE, TRUE, FALSE, Undefined),
     SidecarFile(TRUE, TRUE, TRUE, JNull),
     SidecarFile(TRUE, TRUE, TRUE, EmptyObj),
     SidecarFile(TRUE, TRUE, TRUE, Obj([records |-> Arr(<<>>)])),
     SidecarFile(TRUE, TRUE, TRUE, Obj([records |-> Arr(<<EmptyObj>>)])),
     SidecarFile(TRUE, TRUE, TRUE,
                 Obj([records |-> Arr(<<Obj([metadata |-> EmptyObj])>>)])),
     SidecarFile(TRUE, TRUE, TRUE, ReportDoc(Num(5))),
     SidecarFile(TRUE, TRUE, TRUE, ReportDoc(Str(<<"a">>))),
     SidecarFile(TRUE, TRUE, TRUE, ReportDoc(Str(sHttpPrefix))),
     SidecarFile(TRUE, TRUE, TRUE, ReportDoc(Str(sSidecarUrl))) >>

\* ------------------------------------------------------------ scanner process
\* What the scanner writes, one chunk at a time, and how it ends.

\* "Full Report Details http://a\n"
sReportLine == <<"F", "u", "l", "l", " ", "R", "e", "p", "o", "r", "t", " ", "D", "e", "t", "a", "i", "l", "s", " ", "h", "t", "t", "p", ":", "/", "/", "a", "\n">>

\* "a\n"
sNoise == <<"a", "\n">>

\* "old scan\nFull Report Details https://b\nmore old output of the scan\n"
sOldResult == <<"o", "l", "d", " ", "s", "c", "a", "n", "\n", "F", "u", "l", "l", " ", "R", "e", "p", "o", "r", "t", " ", "D", "e", "t", "a", "i", "l", "s", " ", "h", "t", "t", "p", "s", ":", "/", "/", "b", "\n", "m", "o", "r", "e", " ", "o", "l", "d", " ", "o", "u", "t", "p", "u", "t", " ", "o", "f", " ", "t", "h", "e", " ", "s", "c", "a", "n", "\n">>

Chunks == {sNoise, sReportLine}

\* The largest number of chunks a scanner run writes, both streams together.
MaxChunks == 2

\* The exit status: a number, or null when a signal ended the process.
ExitStatuses == <<Num(0), Num(2), JNull>>

\* error.status != null && error.status > 0, and code != null && code > 0
NonZeroExit(st) == st.kind = "number" /\ st.num > 0

\* ------------------------------------------------------------ state

VARIABLES
  text,            \* the argument of a direct call of extractScanUrl
  called,          \* whether that direct call has been made
  ret,             \* what the direct call did and returned
  history,         \* the direct calls made so far, in order
  sidecar,         \* the file at SCA_OUTPUT_FILE
  runnerOS,        \* process.env.RUNNER_OS
  options,         \* createIssues and breakBuildOnPolicyFindings of Options
  isPR,            \* whether GITHUB_REF names a pull request (isPR >= 1)
  pc,              \* where runAction, or its close handler, is
  settled,         \* whether the promise runAction returned has settled
  written,         \* what the scanner has written to stdout (out) and stderr (err)
  arrivals,        \* the chunks written, in order, each with its stream
  status,          \* the exit status of the scanner, undefined while it runs
  output,          \* let output
  stderrOutput,    \* let stderrOutput
  extractArgs,     \* the texts runAction passed to extractScanUrl, in order
  scanUrlOutputs,  \* the values of core.setOutput('scan-url', ...), in order
  failedCalls,     \* the reasons of the core.setFailed calls, in order
  resultFile,      \* the file scaResults.txt
  fileWrites,      \* the writeFileSync('scaResults.txt', data) calls, in order
  exitLogs         \* the exit statuses written to the log, in order

extractorVars == <<text, called, ret, history>>

actionVars ==
  <<runnerOS, options, isPR, pc, settled, written, arrivals, status, output,
    stderrOutput, extractArgs, scanUrlOutputs, failedCalls, resultFile,
    fileWrites, exitLogs>>

vars == <<extractorVars, sidecar, actionVars>>

Idle == NotFound(<<>>, <<>>, 0, 0)

NoFile == [exists |-> FALSE, content |-> <<>>]

\* The state of runAction before it is called.
ActionIdle ==
  /\ pc = "start"
  /\ settled = FALSE
  /\ written = [out |-> <<>>, err |-> <<>>]
  /\ arrivals = <<>>
  /\ status = Undefined
  /\ output = <<>>
  /\ stderrOutput = <<>>
  /\ extractArgs = <<>>
  /\ scanUrlOutputs = <<>>
  /\ failedCalls = <<>>
  /\ fileWrites = <<>>
  /\ exitLogs = <<>>

\* ------------------------------------------------------------ the extractor alone

\* The sidecar states the longest texts are run with: no file, a report that
\* is the bare prefix, a report that is a URL.
MainSidecars == {1, Len(Sidecars) - 1, Len(Sidecars)}

ExtractInit ==
  /\ \E n \in 0..MaxSegments :
       /\ \/ \E s \in Concats(n) : text = Str(s)
          \/ n = 0 /\ text = JNull
          \/ n = 0 /\ text = Undefined
       /\ \E k \in 1..Len(Sidecars) :
            /\ n = MaxSegments => k \in MainSidecars
            /\ sidecar = Sidecars[k]
  /\ called = FALSE
  /\ ret = Idle
  /\ history = <<>>
  /\ runnerOS = "Linux"
  /\ options = [createIssues |-> FALSE, breakBuildOnPolicyFindings |-> "false"]
  /\ isPR = FALSE
  /\ resultFile = NoFile
  /\ ActionIdle

\* One call extractScanUrl(text) with the sidecar file as it is.
Extract ==
  /\ ~called
  /\ called' = TRUE
  /\ ret' = extractScanUrl(text, sidecar)
  /\ UNCHANGED <<text, history, sidecar, actionVars>>

ExtractNext == Extract

ExtractSpec == ExtractInit /\ [][ExtractNext]_vars

\* ------------------------------------------------------------ repeated calls

\* The largest number of calls in a row.
MaxCalls == 3

\* The file at SCA_OUTPUT_FILE after a call that removed the file it read.
SidecarConsumed(file, r) == IF r.readCalls > 0 THEN NoSidecar ELSE file

\* The file at SCA_OUTPUT_FILE after a call that found it as `file`: the
\* function calls existsSync and readFileSync only.
SidecarAfter(file, r) == file

\* One call, recorded with the files before and after it.
CallRecord(t, r, before, after, fileBefore, fileAfter) ==
  [text |-> t, found |-> r.found, url |-> r.url, before |-> before,
   after |-> after, fileBefore |-> fileBefore, fileAfter |-> fileAfter]

RepeatInit ==
  /\ \/ \E s \in Concats(1) : text = Str(s)
     \/ text = JNull
  /\ \E k \in 1..Len(Sidecars) : sidecar = Sidecars[k]
  /\ called = FALSE
  /\ ret = Idle
  /\ history = <<>>
  /\ runnerOS = "Linux"
  /\ options = [createIssues |-> FALSE, breakBuildOnPolicyFindings |-> "false"]
  /\ isPR = FALSE
  /\ resultFile = [exists |-> TRUE, content |-> sOldResult]
  /\ ActionIdle

\* extractScanUrl(t), with the text of an earlier call, the text of the
\* initial state or the report line.
Call ==
  /\ Len(history) < MaxCalls
  /\ \E t \in {text, Str(sReportLine)} \cup {history[k].text : k \in 1..Len(history)} :
       LET r == extractScanUrl(t, sidecar)
           after == SidecarAfter(sidecar, r)
       IN /\ text' = t
          /\ ret' = r
          /\ sidecar' = after
          /\ history' = Append(history,
                               CallRecord(t, r, sidecar, after, resultFile, resultFile))
  /\ called' = TRUE
  /\ UNCHANGED actionVars

\* Between two calls the scanner writes its JSON report to SCA_OUTPUT_FILE.
SidecarWritten ==
  /\ Len(history) < MaxCalls
  /\ sidecar # Sidecars[Len(Sidecars)]
  /\ sidecar' = Sidecars[Len(Sidecars)]
  /\ UNCHANGED <<extractorVars, actionVars>>

RepeatNext == Call \/ SidecarWritten

RepeatSpec == RepeatInit /\ [][RepeatNext]_vars

\* ------------------------------------------------------------ runAction

Windows == runnerOS = "Windows"

BreakBuild == options.breakBuildOnPolicyFindings = "true"

\* core.setOutput('scan-url', scanUrl) without the test of scanUrl.
SetScanUrlAlways(outputs, r) == Append(outputs, r.url)

\* if (scanUrl) { core.setOutput('scan-url', scanUrl) }
SetScanUrl(outputs, r) == IF r.found THEN Append(outputs, r.url) ELSE outputs

\* if (status > 0 && options.breakBuildOnPolicyFindings == 'true') core.setFailed(...)
FailOnPolicy(calls, st) ==
  IF NonZeroExit(st) /\ BreakBuild THEN Append(calls, "exit") ELSE calls

\* if (code != null && code > 0) { core.setFailed(summary_message) }
FailOnExit(calls, st) ==
  IF NonZeroExit(st) THEN Append(calls, "exit") ELSE calls

\* output = `${data}${output}`
PrependData(acc, data) == data \o acc

\* output = `${output}${data}`
AppendData(acc, data) == acc \o data

\* const combinedOutput = `${output}${stderrOutput}`
Combine(out, err) == out \o err

\* writeFileSync('scaResults.txt', data) inside try/catch: when the write
\* fails the file is left as it was.
WriteResult(file, data, writeOk) ==
  IF writeOk THEN [exists |-> TRUE, content |-> data] ELSE file

\* The first await after the scan in the createIssues branches: the comment
\* on the pull request, skipped when the run is not for a pull request.
ToComment == IF isPR THEN "comment" ELSE "afterComment"

RunInit ==
  /\ text = Undefined
  /\ called = FALSE
  /\ ret = Idle
  /\ history = <<>>
  /\ sidecar \in {NoSidecar, Sidecars[Len(Sidecars)]}
  /\ runnerOS \in {"Windows", "Linux"}
  /\ options \in [createIssues : BOOLEAN,
                  breakBuildOnPolicyFindings : {"true", "false"}]
  /\ isPR \in BOOLEAN
  /\ resultFile \in {NoFile, [exists |-> TRUE, content |-> sOldResult]}
  /\ ActionIdle

\* runAction up to the scan: execSync on Windows, which blocks until the
\* scanner ends; spawn elsewhere, after which runAction registers the
\* handlers and returns.
Launch ==
  /\ pc = "start"
  /\ pc' = IF Windows THEN "exec" ELSE "spawned"
  /\ settled' = ~Windows
  /\ UNCHANGED <<fileWrites, exitLogs,
                 extractorVars, sidecar, runnerOS, options, isPR, written,
                 arrivals, status, output, stderrOutput, extractArgs,
                 scanUrlOutputs, failedCalls, resultFile>>

\* The scanner writes a chunk while execSync waits for it.
ScannerWrites ==
  /\ pc = "exec"
  /\ Len(arrivals) < MaxChunks
  /\ \E c \in Chunks :
       \/ /\ written' = [written EXCEPT !.out = @ \o c]
          /\ arrivals' = Append(arrivals, [stream |-> "out", data |-> c])
       \/ /\ written' = [written EXCEPT !.err = @ \o c]
          /\ arrivals' = Append(arrivals, [stream |-> "err", data |-> c])
  /\ UNCHANGED <<fileWrites, exitLogs,
                 extractorVars, sidecar, runnerOS, options, isPR, pc, settled,
                 status, output, stderrOutput, extractArgs, scanUrlOutputs,
                 failedCalls, resultFile>>

\* Windows, createIssues: the scanner ends, execSync returns its stdout or
\* throws, and the try/catch runs up to the first await.
WinIssuesExec ==
  /\ pc = "exec"
  /\ options.createIssues
  /\ \E k \in 1..Len(ExitStatuses) :
       LET st == ExitStatuses[k]
           ok == st.kind = "number" /\ st.num = 0
           out == IF ok THEN written.out ELSE output
           r == extractScanUrl(Str(out), sidecar)
       IN /\ status' = st
          /\ output' = out
          /\ failedCalls' = IF ok THEN failedCalls ELSE FailOnPolicy(failedCalls, st)
          /\ extractArgs' = Append(extractArgs, out)
          /\ scanUrlOutputs' = SetScanUrl(scanUrlOutputs, r)
  /\ pc' = ToComment
  /\ UNCHANGED <<fileWrites, exitLogs,
                 extractorVars, sidecar, runnerOS, options, isPR, settled,
                 written, arrivals, stderrOutput, resultFile>>

\* Windows, no createIssues: the scanner ends, execSync returns its stdout or
\* throws an error that carries stdout and stderr; the try/catch runs, the
\* result file is written, up to the first await.
WinPlainExec ==
  /\ pc = "exec"
  /\ ~options.createIssues
  /\ \E k \in 1..Len(ExitStatuses), writeOk \in BOOLEAN :
       LET st == ExitStatuses[k]
           ok == st.kind = "number" /\ st.num = 0
           out == IF ok \/ Len(written.out) > 0 THEN written.out ELSE output
           err == IF ~ok /\ Len(written.err) > 0 THEN written.err ELSE stderrOutput
           arg == IF ok THEN out ELSE Combine(out, err)
           r == extractScanUrl(Str(arg), sidecar)
       IN /\ status' = st
          /\ output' = out
          /\ stderrOutput' = err
          /\ failedCalls' = IF ok THEN failedCalls ELSE FailOnPolicy(failedCalls, st)
          /\ extractArgs' = Append(extractArgs, arg)
          /\ scanUrlOutputs' = SetScanUrl(scanUrlOutputs, r)
          /\ resultFile' = WriteResult(resultFile, out, writeOk)
          /\ fileWrites' = Append(fileWrites, [data |-> out, ok |-> writeOk])
  /\ pc' = "upload"
  /\ UNCHANGED <<exitLogs,
                 extractorVars, sidecar, runnerOS, options, isPR, settled,
                 written, arrivals>>

\* A 'data' event of stdout that may also come after the close event.
StdoutDataLate ==
  /\ pc \notin {"start", "exec"}
  /\ ~Windows
  /\ Len(arrivals) < MaxChunks
  /\ \E c \in Chunks :
       /\ written' = [written EXCEPT !.out = @ \o c]
       /\ arrivals' = Append(arrivals, [stream |-> "out", data |-> c])
       /\ output' = AppendData(output, c)
  /\ UNCHANGED <<fileWrites, exitLogs, extractorVars, sidecar, runnerOS,
                 options, isPR, pc, settled, status, stderrOutput, extractArgs,
                 scanUrlOutputs, failedCalls, resultFile>>

\* execution.stdout.on('data', ...)
StdoutData ==
  /\ pc = "spawned"
  /\ Len(arrivals) < MaxChunks
  /\ \E c \in Chunks :
       /\ written' = [written EXCEPT !.out = @ \o c]
       /\ arrivals' = Append(arrivals, [stream |-> "out", data |-> c])
       /\ output' = AppendData(output, c)
  /\ UNCHANGED <<fileWrites, exitLogs,
                 extractorVars, sidecar, runnerOS, options, isPR, pc, settled,
                 status, stderrOutput, extractArgs, scanUrlOutputs,
                 failedCalls, resultFile>>

\* execution.stderr.on('data', ...)
StderrData ==
  /\ pc = "spawned"
  /\ Len(arrivals) < MaxChunks
  /\ \E c \in Chunks :
       /\ written' = [written EXCEPT !.err = @ \o c]
       /\ arrivals' = Append(arrivals, [stream |-> "err", data |-> c])
       /\ stderrOutput' = AppendData(stderrOutput, c)
  /\ UNCHANGED <<fileWrites, exitLogs,
                 extractorVars, sidecar, runnerOS, options, isPR, pc, settled,
                 status, output, extractArgs, scanUrlOutputs, failedCalls,
                 resultFile>>

\* createIssues: execution.on('close', ...) up to its first await.
CloseIssues ==
  /\ pc = "spawned"
  /\ options.createIssues
  /\ \E k \in 1..Len(ExitStatuses) :
       LET combinedOutput == Combine(output, stderrOutput)
           r == extractScanUrl(Str(combinedOutput), sidecar)
       IN /\ status' = ExitStatuses[k]
          /\ extractArgs' = Append(extractArgs, combinedOutput)
          /\ scanUrlOutputs' = SetScanUrl(scanUrlOutputs, r)
  /\ pc' = ToComment
  /\ UNCHANGED <<fileWrites, exitLogs,
                 extractorVars, sidecar, runnerOS, options, isPR, settled,
                 written, arrivals, output, stderrOutput, failedCalls,
                 resultFile>>

\* no createIssues: execution.on('close', ...) up to its first await: the
\* extraction, the result file, and the second extraction from what was read
\* back when the first found nothing.
ClosePlain ==
  /\ pc = "spawned"
  /\ ~options.createIssues
  /\ \E k \in 1..Len(ExitStatuses), writeOk \in BOOLEAN :
       LET combinedOutput == Combine(output, stderrOutput)
           r == extractScanUrl(Str(combinedOutput), sidecar)
           file == WriteResult(resultFile, combinedOutput, writeOk)
           fileOutput ==
             IF file.exists /\ Len(file.content) > Len(combinedOutput)
             THEN file.content ELSE combinedOutput
           again == extractScanUrl(Str(fileOutput), sidecar)
       IN /\ status' = ExitStatuses[k]
          /\ exitLogs' = Append(exitLogs, ExitStatuses[k])
          /\ resultFile' = file
          /\ fileWrites' = Append(fileWrites, [data |-> combinedOutput, ok |-> writeOk])
          /\ extractArgs' =
               IF r.found THEN Append(extractArgs, combinedOutput)
               ELSE extractArgs \o <<combinedOutput, fileOutput>>
          /\ scanUrlOutputs' =
               IF r.found THEN SetScanUrl(scanUrlOutputs, r)
               ELSE SetScanUrl(scanUrlOutputs, again)
  /\ pc' = "upload"
  /\ UNCHANGED <<extractorVars, sidecar, runnerOS, options, isPR, settled,
                 written, arrivals, output, stderrOutput, failedCalls>>

\* await octokit.rest.issues.createComment(...) inside its try/catch: the
\* code goes on whether the request succeeds or fails.
CommentDone ==
  /\ pc = "comment"
  /\ pc' = "afterComment"
  /\ UNCHANGED <<fileWrites, exitLogs,
                 extractorVars, sidecar, runnerOS, options, isPR, settled,
                 written, arrivals, status, output, stderrOutput, extractArgs,
                 scanUrlOutputs, failedCalls, resultFile>>

\* createIssues: from the comment to await uploadArtifact(...): run(options),
\* and in the close handler core.setFailed for an exit code > 0.
IssuesAfterComment ==
  /\ pc = "afterComment"
  /\ options.createIssues
  /\ failedCalls' = IF Windows THEN failedCalls ELSE FailOnExit(failedCalls, status)
  /\ exitLogs' = IF Windows THEN exitLogs ELSE Append(exitLogs, status)
  /\ pc' = "upload"
  /\ UNCHANGED <<fileWrites,
                 extractorVars, sidecar, runnerOS, options, isPR, settled,
                 written, arrivals, status, output, stderrOutput, extractArgs,
                 scanUrlOutputs, resultFile>>

\* no createIssues: from the comment to 'Finish command': in the close
\* handler core.setFailed for an exit code > 0 under breakBuildOnPolicyFindings.
PlainAfterComment ==
  /\ pc = "afterComment"
  /\ ~options.createIssues
  /\ failedCalls' = IF Windows THEN failedCalls ELSE FailOnPolicy(failedCalls, status)
  /\ pc' = "done"
  /\ settled' = TRUE
  /\ UNCHANGED <<fileWrites, exitLogs,
                 extractorVars, sidecar, runnerOS, options, isPR, written,
                 arrivals, status, output, stderrOutput, extractArgs,
                 scanUrlOutputs, resultFile>>

\* await artifactClient.uploadArtifact(...) resolves.
UploadDone ==
  /\ pc = "upload"
  /\ pc' = IF options.createIssues THEN "done" ELSE ToComment
  /\ settled' = (settled \/ options.createIssues)
  /\ UNCHANGED <<fileWrites, exitLogs,
                 extractorVars, sidecar, runnerOS, options, isPR, written,
                 arrivals, status, output, stderrOutput, extractArgs,
                 scanUrlOutputs, failedCalls, resultFile>>

\* await artifactClient.uploadArtifact(...) rejects: on Windows the catch of
\* runAction takes it (core.setFailed for a value that is no Error); in a
\* close handler nothing catches it and the handler ends there.
UploadFails ==
  /\ pc = "upload"
  /\ \E isError \in BOOLEAN :
       failedCalls' =
         IF Windows /\ ~isError THEN Append(failedCalls, "unknown error")
         ELSE failedCalls
  /\ pc' = IF Windows THEN "done" ELSE "aborted"
  /\ settled' = TRUE
  /\ UNCHANGED <<fileWrites, exitLogs,
                 extractorVars, sidecar, runnerOS, options, isPR, written,
                 arrivals, status, output, stderrOutput, extractArgs,
                 scanUrlOutputs, resultFile>>

Next ==
  \/ Launch
  \/ ScannerWrites
  \/ WinIssuesExec
  \/ WinPlainExec
  \/ StdoutData
  \/ StderrData
  \/ CloseIssues
  \/ ClosePlain
  \/ CommentDone
  \/ IssuesAfterComment
  \/ PlainAfterComment
  \/ UploadDone
  \/ UploadFails

Spec == RunInit /\ [][Next]_vars

\* ------------------------------------------------------------ properties of extractScanUrl

\* The prefix test written out, character by character.
HasHttpPrefix(s) ==
  \/ Len(s) >= 7 /\ SubSeq(s, 1, 7) = <<"h", "t", "t", "p", ":", "/", "/">>
  \/ Len(s) >= 8 /\ SubSeq(s, 1, 8) = <<"h", "t", "t", "p", "s", ":", "/", "/">>

InSeq(x, seq) == \E k \in 1..Len(seq) : seq[k] = x

\* The first match of each pattern of the list, pattern by pattern; a match
\* can only start at a letter F or f.
FirstMatch(i, t) ==
  LET at(p) == CASE i = 1 -> Pattern1At(t, p)
                 [] i = 2 -> Pattern2At(t, p)
                 [] i = 3 -> Pattern3At(t, p)
                 [] OTHER -> Pattern4At(t, p)
      starts == {p \in 1..Len(t) : Lower(t[p]) = "f" /\ at(p).ok}
  IN IF starts = {} THEN NoMatch
     ELSE at(CHOOSE p \in starts : \A q \in starts : p <= q)

\* The first match of pattern i captures a token with the http(s) prefix.
Validated(i, t) ==
  LET m == FirstMatch(i, t)
  IN m.ok /\ HasHttpPrefix(Trim(Captured(t, m)))

\* The positions where the phrase is followed by white space and a token
\* that is the http(s) prefix and at least one more character.
ReportUrlStarts(t) ==
  {p \in 1..Len(t) :
     /\ Pattern3At(t, p).ok
     /\ HasHttpPrefix(Captured(t, Pattern3At(t, p)))
     /\ Captured(t, Pattern3At(t, p)) \notin {sHttpPrefix, sHttpsPrefix}}

\* The token at the first such position.
FirstReportUrl(t) ==
  LET p == CHOOSE p \in ReportUrlStarts(t) : \A q \in ReportUrlStarts(t) : p <= q
  IN Captured(t, Pattern3At(t, p))

\* records[0].metadata.report of a sidecar file that exists and parses, or
\* undefined.
SidecarReport(f) ==
  IF ~(f.exists /\ f.readable /\ f.valid) \/ f.json.kind # "object"
  THEN Undefined
  ELSE LET records == Member(f.json, "records")
           first == IF records.kind = "array" /\ Len(records.items) >= 1
                    THEN records.items[1] ELSE Undefined
           metadata == IF first.kind = "object" THEN Member(first, "metadata")
                       ELSE Undefined
       IN IF metadata.kind = "object" THEN Member(metadata, "report")
          ELSE Undefined

\* The sidecar file holds a report that is a string with the http(s) prefix.
SidecarHasUrl(f) ==
  LET report == SidecarReport(f)
  IN report.kind = "string" /\ HasHttpPrefix(report.str)

IsText == text.kind = "string"

\* C1: for every non-empty text in which the phrase (any case, any white
\* space runs) is followed by white space and a token that starts with
\* http:// or https:// (here: the prefix and at least one more character),
\* the call returns the token of the first such place, whatever the sidecar
\* file holds.
C1_ReturnsFirstReportUrl ==
  (called /\ IsText /\ ReportUrlStarts(text.str) # {})
    => (ret.found /\ ret.url = FirstReportUrl(text.str))

\* C2: every value returned has the case-sensitive prefix http:// or
\* https://, from a pattern or from the sidecar; a pattern that matched a
\* token without the prefix does not give the result, the next pattern is
\* tried after it, and the sidecar fallback after the last one.
C2_OnlyHttpUrlsReturned ==
  called =>
    /\ ret.found => HasHttpPrefix(ret.url)
    /\ \A k \in 1..Len(ret.rejected) :
         LET i == ret.rejected[k]
         IN /\ ret.used # i
            /\ i < NumPatterns => InSeq(i + 1, ret.tried)
            /\ ret.used = 0 => ret.existsCalls = 1

\* A pattern matched a token without the prefix, and the call went on to
\* return the URL of the sidecar file.
C2_Witness ==
  /\ called
  /\ ret.rejected # <<>>
  /\ ret.found
  /\ ret.used = 0

\* C3 as stated: for every text, the empty text included, from which no
\* pattern yields a validated URL, a sidecar file whose report is an http(s)
\* URL makes the call return that report.
C3_SidecarUrlForEveryText ==
  (/\ called
   /\ IsText
   /\ SidecarHasUrl(sidecar)
   /\ \A i \in 1..NumPatterns : ~Validated(i, text.str))
    => (ret.found /\ ret.url = SidecarReport(sidecar).str)

\* C3, amended: the same for every non-empty text.
C3_SidecarUrlForNonEmptyText ==
  (/\ called
   /\ IsText
   /\ Len(text.str) > 0
   /\ SidecarHasUrl(sidecar)
   /\ \A i \in 1..NumPatterns : ~Validated(i, text.str))
    => (ret.found /\ ret.url = SidecarReport(sidecar).str)

\* A non-empty text with a rejected match was run with a sidecar file that
\* holds a URL, and the call returned it.
C3_Witness ==
  /\ called
  /\ IsText
  /\ Len(text.str) > 0
  /\ \A i \in 1..NumPatterns : ~Validated(i, text.str)
  /\ SidecarHasUrl(sidecar)
  /\ ret.found
  /\ ret.url = sSidecarUrl

\* C4: for an empty or absent text (empty string, null, undefined) the call
\* returns null at once: no pattern is tried, and the sidecar file is neither
\* tested for existence nor read.
C4_EmptyTextNoWork ==
  (called /\ ~Truthy(text))
    => /\ ~ret.found
       /\ ret.tried = <<>>
       /\ ret.existsCalls = 0
       /\ ret.readCalls = 0

\* The empty string was passed while the sidecar file holds a URL.
C4_Witness ==
  /\ called
  /\ IsText
  /\ Len(text.str) = 0
  /\ SidecarHasUrl(sidecar)
  /\ ~ret.found

\* White space anywhere in s.
HasSpace(s) == \E k \in 1..Len(s) : s[k] \in WhiteSpace

\* C8: every value returned is http:// or https:// followed by at least one
\* more character, and holds no white space.
C8_NoMalformedUrl ==
  (called /\ ret.found)
    => /\ HasHttpPrefix(ret.url)
       /\ ret.url # sHttpPrefix
       /\ ret.url # sHttpsPrefix
       /\ ~HasSpace(ret.url)

\* The lowest-numbered pattern whose first match is validated, 0 if none.
LowestValidated(t) ==
  LET valid == {i \in 1..NumPatterns : Validated(i, t)}
  IN IF valid = {} THEN 0
     ELSE CHOOSE i \in valid : \A j \in valid : i <= j

\* C9: the patterns are tried in list order and the result is the trimmed
\* capture of the lowest-numbered pattern whose first match passes the
\* validation, also when a later pattern matches elsewhere or another token;
\* patterns after a rejected match are still tried.
C9_PatternOrder ==
  (called /\ Truthy(text)) =>
    LET w == LowestValidated(text.str)
    IN IF w = 0
       THEN ret.used = 0 /\ ret.tried = [k \in 1..NumPatterns |-> k]
       ELSE /\ ret.found
            /\ ret.used = w
            /\ ret.url = Trim(Captured(text.str, FirstMatch(w, text.str)))
            /\ ret.tried = [k \in 1..w |-> k]

\* The first pattern gave the result although the second pattern matches
\* earlier in the text, with another token.
C9_Witness ==
  /\ called
  /\ IsText
  /\ ret.used = 1
  /\ FirstMatch(2, text.str).ok
  /\ FirstMatch(2, text.str).from < FirstMatch(1, text.str).from
  /\ Captured(text.str, FirstMatch(2, text.str)) # ret.url

\* C10: no exception leaves the call, whatever the text and the sidecar
\* file; and with a sidecar file that is unreadable, not JSON, or without a
\* report that is an http(s) URL, the call returns what it returns without
\* the file.
C10_NeverThrows ==
  called =>
    /\ ~ret.threw
    /\ ~SidecarHasUrl(sidecar) =>
         LET alone == extractScanUrl(text, NoSidecar)
         IN ret.found = alone.found /\ ret.url = alone.url

\* The fallback read a sidecar file whose report is a number.
C10_Witness ==
  /\ called
  /\ SidecarReport(sidecar).kind = "number"
  /\ ret.readCalls = 1
  /\ ~ret.found

\* The word w, in any letter case, at position p of t.
WordAt(t, p, w) ==
  /\ p + Len(w) - 1 <= Len(t)
  /\ \A k \in 1..Len(w) : Lower(t[p + k - 1]) = w[k]

\* t[a..b] is a non-empty run of white space.
SpaceRun(t, a, b) == a <= b /\ \A k \in a..b : t[k] \in WhiteSpace

\* The text holds the words Full, Report, Details, in any letter case, with
\* white space between them.
ContainsPhrase(t) ==
  \E p \in 1..Len(t) :
    /\ WordAt(t, p, wFull)
    /\ \E q \in (p + Len(wFull) + 1)..Len(t) :
         /\ SpaceRun(t, p + Len(wFull), q - 1)
         /\ WordAt(t, q, wReport)
         /\ \E r \in (q + Len(wReport) + 1)..Len(t) :
              /\ SpaceRun(t, q + Len(wReport), r - 1)
              /\ WordAt(t, r, wDetails)

\* C11: for every input without the phrase Full Report Details (any letter
\* case, any white space between the words), the empty input included, the
\* call returns absence when no sidecar file is present.
C11_NoPhraseNoSidecarAbsent ==
  (called /\ ~sidecar.exists /\ (IsText => ~ContainsPhrase(text.str)))
    => ~ret.found

\* A text that holds a URL after Full Report, without the word Details, was
\* run with no sidecar file and the call returned absence.
C11_Witness ==
  /\ called
  /\ IsText
  /\ ~sidecar.exists
  /\ ~ContainsPhrase(text.str)
  /\ \E p \in 1..Len(text.str) :
       /\ WordAt(text.str, p, wFull)
       /\ WordAt(text.str, p + Len(wFull) + 1, wReport)
       /\ HasHttpPrefix(SubSeq(text.str, p + Len(wFull) + Len(wReport) + 2,
                               Len(text.str)))
  /\ ~ret.found

Contains(t, s) ==
  \E p \in 0..(Len(t) - Len(s)) : SubSeq(t, p + 1, p + Len(s)) = s

\* The chunks of one stream, in the order they arrived, joined.
RECURSIVE StreamText(_, _)
StreamText(arr, stream) ==
  IF arr = <<>> THEN <<>>
  ELSE (IF Head(arr).stream = stream THEN Head(arr).data ELSE <<>>)
         \o StreamText(Tail(arr), stream)

\* The chunks of both streams, in the order they arrived, joined.
RECURSIVE ArrivalText(_)
ArrivalText(arr) ==
  IF arr = <<>> THEN <<>> ELSE Head(arr).data \o ArrivalText(Tail(arr))

\* The scanner has ended and runAction has made its first extraction.
Extracted == status # Undefined /\ extractArgs # <<>>

\* C5: after a non-zero exit, in every branch, the text passed to
\* extractScanUrl holds all the scanner wrote to stdout and to stderr, and a
\* report line written to stderr makes its URL the scan-url output.
C5_FailedScanOutputExtracted ==
  (Extracted /\ NonZeroExit(status)) =>
    /\ Contains(extractArgs[1], written.out)
    /\ Contains(extractArgs[1], written.err)
    /\ Contains(written.err, sReportLine) =>
         scanUrlOutputs = <<sHttpPrefix \o <<"a">> >>

\* C6 as stated: the combined output passed to the extraction is the chunks
\* of stdout and stderr joined in the order they arrived.
C6_CombinedInArrivalOrder ==
  (~Windows /\ Extracted) => extractArgs[1] = ArrivalText(arrivals)

\* C6, amended: the combined output is the stdout chunks in the order they
\* arrived, followed by the stderr chunks in the order they arrived.
C6_CombinedStdoutThenStderr ==
  (~Windows /\ Extracted) =>
    extractArgs[1] = StreamText(arrivals, "out") \o StreamText(arrivals, "err")

\* A stderr chunk arrived before a different stdout chunk, and the close
\* handler has extracted.
C6_Witness ==
  /\ ~Windows
  /\ Extracted
  /\ Len(arrivals) >= 2
  /\ arrivals[1].stream = "err"
  /\ arrivals[2].stream = "out"
  /\ arrivals[1].data # arrivals[2].data

\* C7: core.setFailed is called for an exit status > 0 only when
\* breakBuildOnPolicyFindings is 'true'.
C7_FailOnlyOnPolicy ==
  InSeq("exit", failedCalls) => BreakBuild

\* C13: once the scanner has ended, in every branch, writeFileSync was
\* called once for scaResults.txt, with everything the scanner wrote to
\* stdout followed by everything it wrote to stderr, and a write that
\* succeeded left the file with exactly that content.
C13_ResultFileHoldsCombined ==
  status # Undefined =>
    /\ Len(fileWrites) = 1
    /\ fileWrites[1].data = Combine(written.out, written.err)
    /\ fileWrites[1].ok =>
         resultFile = [exists |-> TRUE, content |-> fileWrites[1].data]

\* The run is over: runAction, or its close handler, has ended.
RunOver == pc \in {"done", "aborted"}

\* C14: when the scanner ended with a non-zero exit status, then by the end
\* of the run, in every branch and whatever breakBuildOnPolicyFindings is,
\* the status was written to the log or core.setFailed was called for it.
C14_NonZeroExitSurfaced ==
  (RunOver /\ NonZeroExit(status))
    => (InSeq(status, exitLogs) \/ InSeq("exit", failedCalls))

\* C15: once the promise that runAction returned has settled, in both
\* capture strategies, the scanner has closed, extraction has run on the
\* final output, and no data event or close handler is still to run.
C15_SettledMeansFinal == settled => (Extracted /\ RunOver)

\* a is a prefix of b.
IsPrefix(a, b) == Len(a) <= Len(b) /\ SubSeq(b, 1, Len(a)) = a

\* C16: in streaming capture the close event comes once; every step leaves
\* each accumulator a prefix of its new value; the accumulators are passed
\* to the extraction only in the step of the close event; and no step after
\* it changes an accumulator.
C16_AccumulatorsAppendOnly ==
  [][~Windows =>
       /\ IsPrefix(output, output')
       /\ IsPrefix(stderrOutput, stderrOutput')
       /\ extractArgs' # extractArgs => (status = Undefined /\ status' # Undefined)
       /\ status # Undefined =>
            /\ status' = status
            /\ output' = output
            /\ stderrOutput' = stderrOutput
            /\ extractArgs' = extractArgs]_vars

\* A streaming run is over after chunks came on both streams, and its
\* extraction got the two accumulators joined.
C16_Witness ==
  /\ ~Windows
  /\ pc = "done"
  /\ Len(output) > 0
  /\ Len(stderrOutput) > 0
  /\ extractArgs # <<>>
  /\ extractArgs[1] = Combine(output, stderrOutput)

\* What extractScanUrl returns for the text a in this run.
Returned(a) == extractScanUrl(Str(a), sidecar)

\* The extraction attempts of the run that returned a URL.
Successes == {i \in 1..Len(extractArgs) : Returned(extractArgs[i]).found}

\* C17: in every branch 'scan-url' is set at most once, to a value that an
\* extraction of the run returned, which starts with http:// or https://;
\* it is not set when every extraction returned absence; and a second
\* extraction is made only without createIssues, off Windows, after a first
\* one that returned absence.
C17_ScanUrlSetOnceFromExtraction ==
  /\ Len(scanUrlOutputs) <= 1
  /\ \A k \in 1..Len(scanUrlOutputs) :
       /\ HasHttpPrefix(scanUrlOutputs[k])
       /\ \E i \in Successes : Returned(extractArgs[i]).url = scanUrlOutputs[k]
  /\ Successes = {} => scanUrlOutputs = <<>>
  /\ Len(extractArgs) <= 2
  /\ Len(extractArgs) = 2 =>
       (~Windows /\ ~options.createIssues /\ 1 \notin Successes)

\* The first extraction of a run returned absence, the second one, from
\* the result file, returned a URL, and 'scan-url' was set to it.
C17_Witness ==
  /\ RunOver
  /\ Len(extractArgs) = 2
  /\ Successes = {2}
  /\ scanUrlOutputs = <<Returned(extractArgs[2]).url>>

====
